---- MODULE Spec2Model ----
(***************************************************************************)
(* MockInterface of storage-facade-mockinterface: an in-memory Map behind  *)
(* the storage-facade backend contract, in a synchronous form and in an    *)
(* asynchronous form that settles a promise from a setTimeout callback.    *)
(*                                                                         *)
(* The model follows the latest version of the class (the second module of *)
(* src/unnamed/part_000, lines 176-363).  JavaScript values live in a heap *)
(* of object cells so that aliasing between the caller's objects and the   *)
(* Map's values is something a state can exhibit; structuredClone          *)
(* allocates a new cell with the same content.                             *)
(***************************************************************************)
EXTENDS Integers, Sequences, FiniteSets, TLC

\* ---------------------------------------------------------------- bounds
\* Largest number of deferred operations whose timers have not fired yet.
MaxPending == 1

\* Math.random() is one of 0/RandomSteps, 1/RandomSteps, ... below 1.
RandomSteps == 128

\* ------------------------------------------------------------ input sets
\* Adapter instances that exist (new MockInterface()).
InstOrder == <<"A">>
Insts == {InstOrder[j] : j \in DOMAIN InstOrder}
\* Every instance a caller constructs, in order of construction: the second
\* one is constructed while the first is in use.
AllInstOrder == <<"A", "B">>
AllInsts == {AllInstOrder[j] : j \in DOMAIN AllInstOrder}

\* Keys the caller uses; they differ only in letter case.
Keys == {"value", "Value"}

\* Indices the caller passes to key(index): in range, out of range, negative.
Indices == {-1, 0, 1, 2}

\* Contents an object can have: 1 is { c: [40, 42] }, 2 is the mutated { c: [30] }.
Contents == {1, 2}

\* setup.name values the caller passes to init (NameAbsent: no name given).
NameAbsent == "<absent>"
SetupNames == {NameAbsent, "settings"}

\* Ends of the ranges randomInRange is called with, and delays a descriptor
\* can supply (setup.delay).
RangeEnds == -1 .. 3
FixedDelays == {0, 5}

\* ---------------------------------------------------------------- values
\* A JavaScript value: a type tag, a number payload and a string payload.
Val(t, n, s) == [t |-> t, n |-> n, s |-> s]
Undefined == Val("undefined", 0, "")
Num(n) == Val("number", n, "")
Str(s) == Val("string", 0, s)
Ref(id) == Val("object", id, "")
Ok == Val("Ok", 0, "")
Err(msg) == Val("Error", 0, msg)
\* A deep view of an object: its content, without its identity.
Obj(c) == Val("objectContent", c, "")
\* Not a JavaScript value: "no entry" in the bookkeeping of completed writes.
Absent == Val("absent", 0, "")

defaultStorageName == "storage"
DeletedMessage == "This Storage was deleted!"
ContractMessage == "'wait({...})': Use 'resolve' OR 'reject'!"

IsRef(v) == v.t = "object"

\* The value as toEqual sees it: an object by its content, anything else as is.
Deref(v, h) == IF IsRef(v) THEN Obj(h[v.n]) ELSE v

\* ----------------------------------------------------------------- delay
defaultDelay == <<10, 100>>

\* Math.floor(num / den) for den > 0.
MathFloor(num, den) == num \div den

\* randomInRange(min, max), with Math.random() = rnd / RandomSteps.
randomInRangeRounds(min, max, rnd) ==
  IF min = 0 /\ max = 0 THEN 0
  ELSE MathFloor(2 * rnd * (max - min + 1) + RandomSteps, 2 * RandomSteps) + min
randomInRange(min, max, rnd) ==
  IF min = 0 /\ max = 0 THEN 0
  ELSE MathFloor(rnd * (max - min + 1), RandomSteps) + min

\* The delay wait hands to setTimeout: setup.delay ?? randomInRange(...delay),
\* where delay is defaultDelay when the descriptor supplies none (fixed = << >>).
setTimeoutDelay(fixed, rnd) ==
  IF fixed # << >> THEN fixed[1]
  ELSE randomInRange(defaultDelay[1], defaultDelay[2], rnd)

\* ------------------------------------------------------------------ heap
\* The heap maps the ids of the live object cells to their contents.
FreshId(h) == CHOOSE i \in 1..(Cardinality(DOMAIN h) + 1) :
                 /\ i \notin DOMAIN h
                 /\ \A j \in 1..(i - 1) : j \in DOMAIN h

\* { c: [40, 42] } evaluated by the caller: a new cell.
NewObject(h, c) == [val |-> Ref(FreshId(h)), heap |-> h @@ (FreshId(h) :> c)]

\* structuredClone(value): a new cell with the same content for an object,
\* the value itself for undefined and for primitives.
structuredCloneAlias(v, h) == [val |-> v, heap |-> h]
structuredClone(v, h) ==
  IF IsRef(v) THEN NewObject(h, h[v.n]) ELSE [val |-> v, heap |-> h]

\* ------------------------------------------------------------------- Map
\* Map<string, unknown> as the sequence of its entries in insertion order,
\* which is what Array.from(map) lists.
Entry(k, v) == [key |-> k, value |-> v]
LowerCase(k) == IF k = "Value" THEN "value" ELSE k
MapIndexIgnoreCase(m, k) ==
  IF \E i \in DOMAIN m : LowerCase(m[i].key) = LowerCase(k)
  THEN CHOOSE i \in DOMAIN m : LowerCase(m[i].key) = LowerCase(k)
  ELSE 0
MapIndex(m, k) == IF \E i \in DOMAIN m : m[i].key = k
                  THEN CHOOSE i \in DOMAIN m : m[i].key = k
                  ELSE 0
MapHas(m, k) == MapIndex(m, k) # 0
MapGet(m, k) == IF MapHas(m, k) THEN m[MapIndex(m, k)].value ELSE Undefined
\* Map.prototype.set: an existing key keeps its position, a new key is appended.
MapSetMoveToEnd(m, k, v) == Append(SelectSeq(m, LAMBDA e : e.key # k), Entry(k, v))
MapSetKeepFirst(m, k, v) == IF MapHas(m, k) THEN m ELSE Append(m, Entry(k, v))
MapSetAppends(m, k, v) == Append(m, Entry(k, v))
MapSet(m, k, v) ==
  IF MapHas(m, k)
  THEN [m EXCEPT ![MapIndex(m, k)] = Entry(k, v)]
  ELSE Append(m, Entry(k, v))
MapDeleteSplice(m, k) ==
  IF MapHas(m, k) THEN SelectSeq(m, LAMBDA e : e.key # k) ELSE SubSeq(m, 1, Len(m) - 1)
MapDelete(m, k) == SelectSeq(m, LAMBDA e : e.key # k)
MapClear(m) == << >>
MapSize(m) == Len(m)
\* Array.from(this.storage)[index]?.[0]
ArrayFromAtNoOptionalChain(m, index) ==
  IF (index + 1) \in DOMAIN m THEN Str(m[index + 1].key)
  ELSE Err("TypeError: Cannot read properties of undefined")
ArrayFromAt(m, index) ==
  IF (index + 1) \in DOMAIN m THEN Str(m[index + 1].key) ELSE Undefined

\* --------------------------------------------------------------- adapter
\* A MockInterface instance: storageName = '', isDeleted = false, an empty Map.
NewMockInterface == [storageName |-> "", isDeleted |-> FALSE, storage |-> << >>]

\* checkStorage(): TRUE when it throws Error('This Storage was deleted!').
checkStorageNever(a) == FALSE
checkStorage(a) == a.isDeleted

\* setup.name ?? defaultStorageName
NameOf(name) == IF name = NameAbsent THEN defaultStorageName ELSE name

\* The statements of the methods, as functions of the instance.
initBodyClears(a, name) == [a EXCEPT !.storageName = NameOf(name), !.storage = MapClear(@)]
initRevives(a, name) == [a EXCEPT !.storageName = NameOf(name), !.isDeleted = FALSE]
initBody(a, name) == [a EXCEPT !.storageName = NameOf(name)]
setItemBodySkipsUndefined(a, key, v) ==
  IF v = Undefined THEN [a EXCEPT !.storage = MapDelete(@, key)]
  ELSE [a EXCEPT !.storage = MapSet(@, key, v)]
setItemBody(a, key, v) == [a EXCEPT !.storage = MapSet(@, key, v)]
removeItemBodyNoDelete(a, key) == a
removeItemBodyDeletesStorage(a, key) == [a EXCEPT !.storage = MapClear(@), !.isDeleted = TRUE]
removeItemBody(a, key) == [a EXCEPT !.storage = MapDelete(@, key)]
clearBodyAsDelete(a) == [a EXCEPT !.storage = MapClear(@), !.isDeleted = TRUE]
clearBody(a) == [a EXCEPT !.storage = MapClear(@)]
deleteStorageBody(a) == [a EXCEPT !.storage = MapClear(@), !.isDeleted = TRUE]

\* --------------------------------------------------------------- promise
\* new Promise((resolve, reject) => ...): the first call of resolve or reject
\* settles it and runs the caller's reaction; later calls do nothing.
NewPromise == [state |-> "pending", value |-> Undefined,
               fulfilledSeen |-> 0, rejectedSeen |-> 0]
PromiseResolveAlways(p, v) ==
  [p EXCEPT !.state = "fulfilled", !.value = v, !.fulfilledSeen = @ + 1]
PromiseResolve(p, v) ==
  IF p.state = "pending"
  THEN [p EXCEPT !.state = "fulfilled", !.value = v, !.fulfilledSeen = @ + 1]
  ELSE p
PromiseReject(p, v) ==
  IF p.state = "pending"
  THEN [p EXCEPT !.state = "rejected", !.value = v, !.rejectedSeen = @ + 1]
  ELSE p

\* ------------------------------------------------------------ DelaySetup
\* resolve and reject are << >> when not set and << data >> when set; action
\* is the closure of the calling method, kept as its kind and captured values.
NoAction == [kind |-> "none", key |-> "", value |-> Undefined, name |-> ""]
Action(kind, key, value, name) ==
  [kind |-> kind, key |-> key, value |-> value, name |-> name]
DelaySetup(resolve, reject, action) ==
  [resolve |-> resolve, reject |-> reject, action |-> action]
IsSet(field) == field # << >>

\* setup.action?.(): the closure's statements, run on the instance.
RunAction(act, a, h) ==
  CASE act.kind = "none" -> [adapter |-> a, heap |-> h]
    [] act.kind = "init" -> [adapter |-> initBody(a, act.name), heap |-> h]
    [] act.kind = "setItem" ->
         LET c == structuredClone(act.value, h)
         IN  [adapter |-> setItemBody(a, act.key, c.val), heap |-> c.heap]
    [] act.kind = "removeItem" -> [adapter |-> removeItemBody(a, act.key), heap |-> h]
    [] act.kind = "clear" -> [adapter |-> clearBody(a), heap |-> h]
    [] act.kind = "deleteStorage" -> [adapter |-> deleteStorageBody(a), heap |-> h]

\* The setTimeout callback of wait(setup).  thrown is the error that leaves
\* the callback uncaught (Undefined: none); the promise is the one wait returned.
waitCallbackNoLatch(setup, a, h) ==
  LET bothSet == IsSet(setup.resolve) /\ IsSet(setup.reject)
      bothNotSet == ~IsSet(setup.resolve) /\ ~IsSet(setup.reject)
      ran == RunAction(setup.action, a, h)
      p2 == IF IsSet(setup.resolve)
            THEN PromiseResolve(NewPromise, setup.resolve[1]) ELSE NewPromise
      p3 == IF IsSet(setup.reject) THEN PromiseReject(p2, setup.reject[1]) ELSE p2
  IN  IF bothSet \/ bothNotSet
      THEN [promise |-> NewPromise, thrown |-> Err(ContractMessage),
            adapter |-> a, heap |-> h, actionRan |-> FALSE]
      ELSE [promise |-> p3, thrown |-> Undefined,
            adapter |-> ran.adapter, heap |-> ran.heap, actionRan |-> TRUE]
waitCallbackChecksLatchLast(setup, a, h) ==
  LET bothSet == IsSet(setup.resolve) /\ IsSet(setup.reject)
      bothNotSet == ~IsSet(setup.resolve) /\ ~IsSet(setup.reject)
      ran == RunAction(setup.action, a, h)
      p1 == IF ran.adapter.isDeleted
            THEN PromiseReject(NewPromise, Err(DeletedMessage)) ELSE NewPromise
      p2 == IF IsSet(setup.resolve) THEN PromiseResolve(p1, setup.resolve[1]) ELSE p1
      p3 == IF IsSet(setup.reject) THEN PromiseReject(p2, setup.reject[1]) ELSE p2
  IN  IF bothSet \/ bothNotSet
      THEN [promise |-> NewPromise, thrown |-> Err(ContractMessage),
            adapter |-> a, heap |-> h, actionRan |-> FALSE]
      ELSE [promise |-> p3, thrown |-> Undefined,
            adapter |-> ran.adapter, heap |-> ran.heap, actionRan |-> TRUE]
waitCallback(setup, a, h) ==
  LET p1 == IF a.isDeleted
            THEN PromiseReject(NewPromise, Err(DeletedMessage)) ELSE NewPromise
      bothSet == IsSet(setup.resolve) /\ IsSet(setup.reject)
      bothNotSet == ~IsSet(setup.resolve) /\ ~IsSet(setup.reject)
      ran == RunAction(setup.action, a, h)
      p2 == IF IsSet(setup.resolve) THEN PromiseResolve(p1, setup.resolve[1]) ELSE p1
      p3 == IF IsSet(setup.reject) THEN PromiseReject(p2, setup.reject[1]) ELSE p2
  IN  IF bothSet \/ bothNotSet
      THEN [promise |-> p1, thrown |-> Err(ContractMessage),
            adapter |-> a, heap |-> h, actionRan |-> FALSE]
      ELSE [promise |-> p3, thrown |-> Undefined,
            adapter |-> ran.adapter, heap |-> ran.heap, actionRan |-> TRUE]

\* ----------------------------------------------------------------- state
VARIABLES
  adapters,   \* instance -> [storageName, isDeleted, storage]
  heap,       \* object id -> content
  pending,    \* the deferred operations whose timers have not fired, in call order
  callerRef,  \* the object the caller holds (passed to setItem or got from getItem)
  ghost,      \* history: per instance, the completed writes and the name at deletion
  timer       \* history: the last delay computed, with the inputs it was computed from

vars == <<adapters, heap, pending, callerRef, ghost, timer>>

\* No delay was computed yet.
NoTimer == [call |-> "none", min |-> 0, max |-> 0, fixed |-> << >>, delay |-> 0]

\* History of instance i: the value each key was last written with by a call
\* that succeeded (Absent: none, or removed since), and the name at deletion.
NewGhost == [written |-> [k \in Keys |-> Absent], nameAtDelete |-> ""]

\* Garbage collection.  The values that hold references, in a fixed order:
\* the Map values of every instance, the values captured by the descriptors
\* of the pending operations, and the caller's object.
RECURSIVE ConcatAll(_)
ConcatAll(ss) == IF ss = << >> THEN << >> ELSE Head(ss) \o ConcatAll(Tail(ss))
MapValues(m) == [j \in DOMAIN m |-> m[j].value]
SetupValues(setup) == <<setup.action.value>> \o setup.resolve \o setup.reject
RootValues(ads, pend, cref) ==
  LET order == SelectSeq(AllInstOrder, LAMBDA i : i \in DOMAIN ads)
  IN  ConcatAll([j \in DOMAIN order |-> MapValues(ads[order[j]].storage)])
    \o ConcatAll([j \in DOMAIN pend |-> SetupValues(pend[j].setup)])
    \o <<cref>>
\* The ids a sequence of values refers to, each once, in order of first use.
RECURSIVE FirstUses(_, _)
FirstUses(vals, seen) ==
  IF vals = << >> THEN seen
  ELSE IF IsRef(Head(vals)) /\ \A j \in DOMAIN seen : seen[j] # Head(vals).n
       THEN FirstUses(Tail(vals), Append(seen, Head(vals).n))
       ELSE FirstUses(Tail(vals), seen)
\* Unreachable cells are dropped and the reachable ones are numbered in the
\* order in which the roots reach them: an id is an identity, nothing more.
Moved(v, ids) == IF IsRef(v) THEN Ref(CHOOSE r \in DOMAIN ids : ids[r] = v.n) ELSE v
MovedMap(m, ids) == [j \in DOMAIN m |-> Entry(m[j].key, Moved(m[j].value, ids))]
MovedSetup(setup, ids) ==
  [resolve |-> [j \in DOMAIN setup.resolve |-> Moved(setup.resolve[j], ids)],
   reject |-> [j \in DOMAIN setup.reject |-> Moved(setup.reject[j], ids)],
   action |-> [setup.action EXCEPT !.value = Moved(@, ids)]]
MovedHeap(h, ids) == [r \in DOMAIN ids |-> h[ids[r]]]

\* The state a step leaves behind: the instances, the pending operations, the
\* caller's object and the heap after garbage collection.
Commit(ads, pend, cref, h) ==
  LET uses == FirstUses(RootValues(ads, pend, cref), << >>)
  IN  IF uses = << >>
      THEN /\ adapters' = ads
           /\ pending' = pend
           /\ callerRef' = cref
           /\ heap' = << >>
           /\ UNCHANGED timer
      ELSE \E ids \in {uses} :
           /\ adapters' = [i \in DOMAIN ads |->
                             [ads[i] EXCEPT !.storage = MovedMap(@, ids)]]
           /\ pending' = [j \in DOMAIN pend |->
                            [pend[j] EXCEPT !.setup = MovedSetup(@, ids)]]
           /\ callerRef' = Moved(cref, ids)
           /\ heap' = MovedHeap(h, ids)
           /\ UNCHANGED timer

Init ==
  /\ adapters = [i \in Insts |-> NewMockInterface]
  /\ heap = << >>
  /\ pending = << >>
  /\ callerRef = Undefined
  /\ ghost = [i \in Insts |-> NewGhost]
  /\ timer = NoTimer

\* ------------------------------------------------------- caller's inputs
\* The value the caller passes to setItem: undefined, 30, a new object
\* { c: [40, 42] } it keeps a reference to, or the object it already holds.
Arg(choice) ==
  CASE choice = "undefined" -> [val |-> Undefined, heap |-> heap, cref |-> callerRef]
    [] choice = "number" -> [val |-> Num(30), heap |-> heap, cref |-> callerRef]
    [] choice = "newObject" ->
         LET o == NewObject(heap, 1) IN [val |-> o.val, heap |-> o.heap, cref |-> o.val]
    [] choice = "heldObject" -> [val |-> callerRef, heap |-> heap, cref |-> callerRef]
ArgEnabled(choice) == choice = "heldObject" => IsRef(callerRef)

\* The caller keeps the object a call returned.
Keep(ret, cref) == IF IsRef(ret) THEN ret ELSE cref

\* --------------------------------------------------- synchronous methods
\* What a synchronous call does in the current state: how it ends ("returned"
\* with ret, or "threw" with thrown), and the instance, the heap, the caller's
\* object and the history it leaves.
Returned(ret, a2, h2, cref2, g2) ==
  [outcome |-> "returned", ret |-> ret, thrown |-> Undefined,
   adapter |-> a2, heap |-> h2, cref |-> cref2, ghost |-> g2]
\* checkStorage() threw: nothing after it ran.
Threw(i, h2, cref2) ==
  [outcome |-> "threw", ret |-> Undefined, thrown |-> Err(DeletedMessage),
   adapter |-> adapters[i], heap |-> h2, cref |-> cref2, ghost |-> ghost[i]]

initSyncCall(i, name) ==
  Returned(Ok, initBody(adapters[i], name), heap, callerRef, ghost[i])

getItemSyncCallTakes(i, key) ==
  LET a == adapters[i]
      c == structuredClone(MapGet(a.storage, key), heap)
  IN  IF checkStorage(a)
      THEN Threw(i, heap, callerRef)
      ELSE Returned(c.val, removeItemBody(a, key), c.heap, Keep(c.val, callerRef),
                    ghost[i])
getItemSyncCall(i, key) ==
  LET a == adapters[i]
      c == structuredClone(MapGet(a.storage, key), heap)
  IN  IF checkStorage(a)
      THEN Threw(i, heap, callerRef)
      ELSE Returned(c.val, a, c.heap, Keep(c.val, callerRef), ghost[i])

setItemSyncCall(i, key, choice) ==
  LET a == adapters[i]
      arg == Arg(choice)
      c == structuredClone(arg.val, arg.heap)
  IN  IF checkStorage(a)
      THEN Threw(i, arg.heap, arg.cref)
      ELSE Returned(Undefined, setItemBody(a, key, c.val), c.heap, arg.cref,
                    [ghost[i] EXCEPT !.written[key] = Deref(arg.val, arg.heap)])

removeItemSyncCall(i, key) ==
  LET a == adapters[i]
  IN  IF checkStorage(a)
      THEN Threw(i, heap, callerRef)
      ELSE Returned(Undefined, removeItemBody(a, key), heap, callerRef,
                    [ghost[i] EXCEPT !.written[key] = Absent])

clearSyncCall(i) ==
  LET a == adapters[i]
  IN  IF checkStorage(a)
      THEN Threw(i, heap, callerRef)
      ELSE Returned(Undefined, clearBody(a), heap, callerRef,
                    [ghost[i] EXCEPT !.written = [k \in Keys |-> Absent]])

sizeSyncCall(i) ==
  LET a == adapters[i]
  IN  IF checkStorage(a)
      THEN Threw(i, heap, callerRef)
      ELSE Returned(Num(MapSize(a.storage)), a, heap, callerRef, ghost[i])

keySyncCall(i, index) ==
  LET a == adapters[i]
  IN  IF checkStorage(a)
      THEN Threw(i, heap, callerRef)
      ELSE Returned(ArrayFromAt(a.storage, index), a, heap, callerRef, ghost[i])

deleteStorageSyncCallUnguarded(i) ==
  LET a == adapters[i]
  IN  Returned(Undefined, deleteStorageBody(a), heap, callerRef,
               [written |-> [k \in Keys |-> Absent],
                nameAtDelete |-> a.storageName])
deleteStorageSyncCall(i) ==
  LET a == adapters[i]
  IN  IF checkStorage(a)
      THEN Threw(i, heap, callerRef)
      ELSE Returned(Undefined, deleteStorageBody(a), heap, callerRef,
                    [written |-> [k \in Keys |-> Absent],
                     nameAtDelete |-> a.storageName])

\* The step of a synchronous call.
ApplyShared(i, r) ==
  /\ Commit([j \in DOMAIN adapters |->
               IF j = i THEN r.adapter
               ELSE [adapters[j] EXCEPT !.storage = r.adapter.storage]],
            pending, r.cref, r.heap)
  /\ ghost' = [ghost EXCEPT ![i] = r.ghost]
Apply(i, r) ==
  /\ Commit([adapters EXCEPT ![i] = r.adapter], pending, r.cref, r.heap)
  /\ ghost' = [ghost EXCEPT ![i] = r.ghost]

\* The methods are called on an instance that was constructed.
initSync(i, name) ==
  /\ i \in DOMAIN adapters
  /\ Apply(i, initSyncCall(i, name))
getItemSync(i, key) ==
  /\ i \in DOMAIN adapters
  /\ Apply(i, getItemSyncCall(i, key))
setItemSync(i, key, choice) ==
  /\ i \in DOMAIN adapters
  /\ ArgEnabled(choice)
  /\ Apply(i, setItemSyncCall(i, key, choice))
removeItemSync(i, key) ==
  /\ i \in DOMAIN adapters
  /\ Apply(i, removeItemSyncCall(i, key))
clearSync(i) ==
  /\ i \in DOMAIN adapters
  /\ Apply(i, clearSyncCall(i))
sizeSync(i) ==
  /\ i \in DOMAIN adapters
  /\ Apply(i, sizeSyncCall(i))
keySync(i, index) ==
  /\ i \in DOMAIN adapters
  /\ Apply(i, keySyncCall(i, index))
deleteStorageSync(i) ==
  /\ i \in DOMAIN adapters
  /\ Apply(i, deleteStorageSyncCall(i))

\* -------------------------------------------------- asynchronous methods
\* this.wait(setup) up to the setTimeout call: the descriptor, with the values
\* its fields were evaluated to, waits for its timer.  deletedAtCall and
\* valueAtCall are history: the latch when the method was called, and the
\* value passed to setItemAsync as toEqual saw it then.
Deferred(i, op, setup) ==
  [inst |-> i, op |-> op, setup |-> setup, deletedAtCall |-> adapters[i].isDeleted,
   valueAtCall |-> Undefined]

initAsyncCall(i, name) ==
  Deferred(i, "init", DelaySetup(<<Ok>>, << >>, Action("init", "", Undefined, name)))
getItemAsyncCall(i, key, c) ==
  Deferred(i, "getItem", DelaySetup(<<c.val>>, << >>, Action("none", key, Undefined, "")))
setItemAsyncCallSnapshot(i, key, v, h) ==
  [Deferred(i, "setItem",
            DelaySetup(<<Ok>>, << >>, Action("setItem", key, Deref(v, h), "")))
     EXCEPT !.valueAtCall = Deref(v, h)]
setItemAsyncCall(i, key, v, h) ==
  [Deferred(i, "setItem", DelaySetup(<<Ok>>, << >>, Action("setItem", key, v, "")))
     EXCEPT !.valueAtCall = Deref(v, h)]
removeItemAsyncCall(i, key) ==
  Deferred(i, "removeItem",
           DelaySetup(<<Ok>>, << >>, Action("removeItem", key, Undefined, "")))
clearAsyncCall(i) ==
  Deferred(i, "clear", DelaySetup(<<Ok>>, << >>, Action("clear", "", Undefined, "")))
sizeAsyncCall(i) ==
  Deferred(i, "size", DelaySetup(<<Num(MapSize(adapters[i].storage))>>, << >>, NoAction))
keyAsyncCall(i, index) ==
  Deferred(i, "key",
           DelaySetup(<<ArrayFromAt(adapters[i].storage, index)>>, << >>, NoAction))
deleteStorageAsyncCall(i) ==
  Deferred(i, "deleteStorage",
           DelaySetup(<<Ok>>, << >>, Action("deleteStorage", "", Undefined, "")))

\* wait is a public method: a caller can hand it any descriptor.
SetupShapes == {"resolve", "reject", "both", "neither"}
ShapeOf(setup) ==
  CASE IsSet(setup.resolve) /\ IsSet(setup.reject) -> "both"
    [] IsSet(setup.resolve) /\ ~IsSet(setup.reject) -> "resolve"
    [] ~IsSet(setup.resolve) /\ IsSet(setup.reject) -> "reject"
    [] OTHER -> "neither"
Malformed(setup) == ShapeOf(setup) \in {"both", "neither"}
waitCall(i, shape) ==
  Deferred(i, "wait",
           DelaySetup(IF shape \in {"resolve", "both"} THEN <<Num(30)>> ELSE << >>,
                      IF shape \in {"reject", "both"} THEN <<Err("custom")>> ELSE << >>,
                      NoAction))

\* The step of an asynchronous call: the timer is set, nothing else happens.
ScheduleEager(d, h2, cref2) ==
  /\ Len(pending) < MaxPending
  /\ LET ran == RunAction(d.setup.action, adapters[d.inst], h2)
     IN  Commit([adapters EXCEPT ![d.inst] = ran.adapter], Append(pending, d),
                cref2, ran.heap)
  /\ UNCHANGED ghost
Schedule(d, h2, cref2) ==
  /\ Len(pending) < MaxPending
  /\ Commit(adapters, Append(pending, d), cref2, h2)
  /\ UNCHANGED ghost

initAsync(i, name) ==
  /\ i \in DOMAIN adapters
  /\ Schedule(initAsyncCall(i, name), heap, callerRef)
getItemAsync(i, key) ==
  /\ i \in DOMAIN adapters
  /\ LET c == structuredClone(MapGet(adapters[i].storage, key), heap)
     IN  Schedule(getItemAsyncCall(i, key, c), c.heap, callerRef)
setItemAsync(i, key, choice) ==
  /\ i \in DOMAIN adapters
  /\ ArgEnabled(choice)
  /\ Schedule(setItemAsyncCall(i, key, Arg(choice).val, Arg(choice).heap),
              Arg(choice).heap, Arg(choice).cref)
removeItemAsync(i, key) ==
  /\ i \in DOMAIN adapters
  /\ Schedule(removeItemAsyncCall(i, key), heap, callerRef)
clearAsync(i) ==
  /\ i \in DOMAIN adapters
  /\ Schedule(clearAsyncCall(i), heap, callerRef)
sizeAsync(i) ==
  /\ i \in DOMAIN adapters
  /\ Schedule(sizeAsyncCall(i), heap, callerRef)
keyAsync(i, index) ==
  /\ i \in DOMAIN adapters
  /\ Schedule(keyAsyncCall(i, index), heap, callerRef)
deleteStorageAsync(i) ==
  /\ i \in DOMAIN adapters
  /\ Schedule(deleteStorageAsyncCall(i), heap, callerRef)
wait(i, shape) ==
  /\ i \in DOMAIN adapters
  /\ Schedule(waitCall(i, shape), heap, callerRef)

\* ----------------------------------------------------------- timer fires
RemoveAt(seq, n) == [j \in 1..(Len(seq) - 1) |-> IF j < n THEN seq[j] ELSE seq[j + 1]]

\* History: what a deferred operation that succeeded has written.
GhostAfter(g, act, a, h) ==
  CASE act.kind = "setItem" -> [g EXCEPT !.written[act.key] = Deref(act.value, h)]
    [] act.kind = "removeItem" -> [g EXCEPT !.written[act.key] = Absent]
    [] act.kind = "clear" -> [g EXCEPT !.written = [k \in Keys |-> Absent]]
    [] act.kind = "deleteStorage" ->
         [written |-> [k \in Keys |-> Absent], nameAtDelete |-> a.storageName]
    [] OTHER -> g

\* What the timer callback of the n-th pending operation does in the current
\* state: the callback's result, and the value the promise settled with as
\* toEqual sees it.
FireReadsLate(n) ==
  LET d == pending[n]
      late == IF d.op = "getItem"
              THEN [d.setup EXCEPT
                      !.resolve = <<MapGet(adapters[d.inst].storage, d.setup.action.key)>>]
              ELSE IF d.op = "size"
              THEN [d.setup EXCEPT
                      !.resolve = <<Num(MapSize(adapters[d.inst].storage))>>]
              ELSE d.setup
      r == waitCallback(late, adapters[d.inst], heap)
  IN  [inst |-> d.inst, op |-> d.op, setup |-> d.setup,
       deletedAtCall |-> d.deletedAtCall, promise |-> r.promise,
       value |-> Deref(r.promise.value, r.heap), thrown |-> r.thrown,
       actionRan |-> r.actionRan, adapter |-> r.adapter, heap |-> r.heap]
Fire(n) ==
  LET d == pending[n]
      r == waitCallback(d.setup, adapters[d.inst], heap)
  IN  [inst |-> d.inst, op |-> d.op, setup |-> d.setup,
       deletedAtCall |-> d.deletedAtCall, promise |-> r.promise,
       value |-> Deref(r.promise.value, r.heap), thrown |-> r.thrown,
       actionRan |-> r.actionRan, adapter |-> r.adapter, heap |-> r.heap]

\* The timer of the n-th pending operation fires: the whole callback runs;
\* the caller keeps the object a fulfilled promise delivers.
TimerFiresInCallOrder(n) ==
  /\ n \in DOMAIN pending
  /\ LET f == Fire(1)
         i == f.inst
     IN  /\ Commit([adapters EXCEPT ![i] = f.adapter], RemoveAt(pending, 1),
                   IF f.promise.state = "fulfilled"
                   THEN Keep(f.promise.value, callerRef) ELSE callerRef,
                   f.heap)
         /\ ghost' = IF f.promise.state = "fulfilled"
                     THEN [ghost EXCEPT
                             ![i] = GhostAfter(@, f.setup.action, adapters[i], heap)]
                     ELSE ghost
TimerFires(n) ==
  /\ n \in DOMAIN pending
  /\ LET f == Fire(n)
         i == f.inst
     IN  /\ Commit([adapters EXCEPT ![i] = f.adapter], RemoveAt(pending, n),
                   IF f.promise.state = "fulfilled"
                   THEN Keep(f.promise.value, callerRef) ELSE callerRef,
                   f.heap)
         /\ ghost' = IF f.promise.state = "fulfilled"
                     THEN [ghost EXCEPT
                             ![i] = GhostAfter(@, f.setup.action, adapters[i], heap)]
                     ELSE ghost

\* ---------------------------------------------------------------- caller
\* The caller assigns to a property of the object it holds (a.c = [30]).
CallerMutates ==
  /\ IsRef(callerRef)
  /\ \E c \in Contents \ {heap[callerRef.n]} :
       heap' = [heap EXCEPT ![callerRef.n] = c]
  /\ UNCHANGED <<adapters, pending, callerRef, ghost, timer>>

\* new MockInterface(): another instance, with its own fields.
newMockInterface(i) ==
  /\ i \in AllInsts \ DOMAIN adapters
  /\ adapters' = adapters @@ (i :> NewMockInterface)
  /\ ghost' = ghost @@ (i :> NewGhost)
  /\ UNCHANGED <<heap, pending, callerRef, timer>>

\* A call of randomInRange(min, max); the instances are not involved.
randomInRangeCalled(min, max, rnd) ==
  /\ timer' = [call |-> "randomInRange", min |-> min, max |-> max,
               fixed |-> << >>, delay |-> randomInRange(min, max, rnd)]
  /\ UNCHANGED <<adapters, heap, pending, callerRef, ghost>>

\* wait computes the delay of its timer, from a descriptor that supplies a
\* delay (fixed = << delay >>) or does not.
waitDelay(fixed, rnd) ==
  /\ timer' = [call |-> "wait", min |-> defaultDelay[1], max |-> defaultDelay[2],
               fixed |-> fixed, delay |-> setTimeoutDelay(fixed, rnd)]
  /\ UNCHANGED <<adapters, heap, pending, callerRef, ghost>>

\* ------------------------------------------------------- specifications
\* Every operation, with undefined and a number as the values written.
PlainChoices == {"undefined", "number"}
Next ==
  \/ \E i \in Insts, name \in SetupNames : initSync(i, name)
  \/ \E i \in Insts, key \in Keys : getItemSync(i, key)
  \/ \E i \in Insts, key \in Keys, choice \in PlainChoices : setItemSync(i, key, choice)
  \/ \E i \in Insts, key \in Keys : removeItemSync(i, key)
  \/ \E i \in Insts : clearSync(i)
  \/ \E i \in Insts : sizeSync(i)
  \/ \E i \in Insts, index \in Indices : keySync(i, index)
  \/ \E i \in Insts : deleteStorageSync(i)
  \/ \E i \in Insts, name \in SetupNames : initAsync(i, name)
  \/ \E i \in Insts, key \in Keys : getItemAsync(i, key)
  \/ \E i \in Insts, key \in Keys, choice \in PlainChoices : setItemAsync(i, key, choice)
  \/ \E i \in Insts, key \in Keys : removeItemAsync(i, key)
  \/ \E i \in Insts : clearAsync(i)
  \/ \E i \in Insts : sizeAsync(i)
  \/ \E i \in Insts, index \in Indices : keyAsync(i, index)
  \/ \E i \in Insts : deleteStorageAsync(i)
  \/ \E i \in Insts, shape \in SetupShapes : wait(i, shape)
  \/ \E n \in 1..MaxPending : TimerFires(n)

Spec == Init /\ [][Next]_vars

\* The reads and writes of values, with objects as the values written and a
\* caller that mutates the object it holds.
ObjectChoices == {"undefined", "newObject", "heldObject"}
NextObjects ==
  \/ \E i \in Insts, key \in Keys : getItemSync(i, key)
  \/ \E i \in Insts, key \in Keys, choice \in ObjectChoices : setItemSync(i, key, choice)
  \/ \E i \in Insts, key \in Keys : removeItemSync(i, key)
  \/ \E i \in Insts : clearSync(i)
  \/ \E i \in Insts : deleteStorageSync(i)
  \/ \E i \in Insts, key \in Keys : getItemAsync(i, key)
  \/ \E i \in Insts, key \in Keys, choice \in ObjectChoices : setItemAsync(i, key, choice)
  \/ \E i \in Insts, key \in Keys : removeItemAsync(i, key)
  \/ \E n \in 1..MaxPending : TimerFires(n)
  \/ CallerMutates

SpecObjects == Init /\ [][NextObjects]_vars

\* Two instances: the initialisation and the mutations of each, under equal
\* and under different names, with one key and one value.
TwoNames == {"settings"}
TwoKeys == {"value"}
TwoChoices == {"number"}
NextTwo ==
  \/ \E i \in AllInsts : newMockInterface(i)
  \/ \E i \in AllInsts, name \in TwoNames : initSync(i, name)
  \/ \E i \in AllInsts, key \in TwoKeys, choice \in TwoChoices : setItemSync(i, key, choice)
  \/ \E i \in AllInsts, key \in TwoKeys : removeItemSync(i, key)
  \/ \E i \in AllInsts : clearSync(i)
  \/ \E i \in AllInsts : deleteStorageSync(i)
  \/ \E i \in AllInsts, name \in TwoNames : initAsync(i, name)
  \/ \E i \in AllInsts, key \in TwoKeys, choice \in TwoChoices : setItemAsync(i, key, choice)
  \/ \E i \in AllInsts, key \in TwoKeys : removeItemAsync(i, key)
  \/ \E i \in AllInsts : clearAsync(i)
  \/ \E i \in AllInsts : deleteStorageAsync(i)
  \/ \E n \in 1..MaxPending : TimerFires(n)

SpecTwo == Init /\ [][NextTwo]_vars

\* The delays: randomInRange on small ranges, and the delay wait computes.
NextRandom ==
  \/ \E min \in RangeEnds, max \in RangeEnds, rnd \in 0 .. (RandomSteps - 1) :
       randomInRangeCalled(min, max, rnd)
  \/ \E d \in FixedDelays, rnd \in 0 .. (RandomSteps - 1) : waitDelay(<<d>>, rnd)
  \/ \E rnd \in 0 .. (RandomSteps - 1) : waitDelay(<< >>, rnd)

SpecRandom == Init /\ [][NextRandom]_vars

\* Two asynchronous mutations called one after the other without awaiting
\* the first: both are in flight on the new instance, their timers fire in
\* either order, and further mutations follow.
RaceValues == {Undefined, Num(30)}
RaceCalls(i) ==
  {setItemAsyncCall(i, key, v, << >>) : key \in Keys, v \in RaceValues}
    \cup {removeItemAsyncCall(i, key) : key \in Keys}
    \cup {clearAsyncCall(i)}
InitRace ==
  /\ adapters = [i \in Insts |-> NewMockInterface]
  /\ heap = << >>
  /\ callerRef = Undefined
  /\ ghost = [i \in Insts |-> NewGhost]
  /\ timer = NoTimer
  /\ \E i \in Insts : \E d1 \in RaceCalls(i), d2 \in RaceCalls(i) : pending = <<d1, d2>>
NextRace ==
  \/ \E i \in Insts, key \in Keys, choice \in PlainChoices : setItemAsync(i, key, choice)
  \/ \E i \in Insts, key \in Keys : removeItemAsync(i, key)
  \/ \E i \in Insts : clearAsync(i)
  \/ \E n \in DOMAIN pending : TimerFires(n)

SpecRace == InitRace /\ [][NextRace]_vars

\* The reads between writes: the synchronous writes and the deletion, and
\* every read, synchronous and asynchronous, with its timer.
NextReads ==
  \/ \E i \in Insts, name \in SetupNames : initSync(i, name)
  \/ \E i \in Insts, key \in Keys, choice \in PlainChoices : setItemSync(i, key, choice)
  \/ \E i \in Insts, key \in Keys : removeItemSync(i, key)
  \/ \E i \in Insts : clearSync(i)
  \/ \E i \in Insts : deleteStorageSync(i)
  \/ \E i \in Insts, key \in Keys : getItemSync(i, key)
  \/ \E i \in Insts : sizeSync(i)
  \/ \E i \in Insts, index \in Indices : keySync(i, index)
  \/ \E i \in Insts, key \in Keys : getItemAsync(i, key)
  \/ \E i \in Insts : sizeAsync(i)
  \/ \E i \in Insts, index \in Indices : keyAsync(i, index)
  \/ \E n \in 1..MaxPending : TimerFires(n)

SpecReads == Init /\ [][NextReads]_vars

\* ================================================================ claims
DeletedError == Err(DeletedMessage)
\* A synchronous call that throws the storage-deleted error.
SyncFails(r) == r.outcome = "threw" /\ r.thrown = DeletedError
\* A timer callback that rejects its promise with the storage-deleted error.
AsyncFails(f) == f.promise.state = "rejected" /\ f.value = DeletedError
\* The operations of the contract other than deleteStorage.
ContractOps == {"init", "getItem", "setItem", "removeItem", "clear", "size", "key"}
\* The keys in the order key(0), key(1), ... lists them.
KeyList(m) == [j \in 1..MapSize(m) |-> ArrayFromAt(m, j - 1).s]
\* What the Map holds under a key as toEqual sees it (Absent: no entry).
StoredDeep(a, k, h) ==
  IF MapHas(a.storage, k) THEN Deref(MapGet(a.storage, k), h) ELSE Absent

\* The synchronous reads and writes other than initSync all throw.
SyncOpsFail(i) ==
  /\ \A key \in Keys : SyncFails(getItemSyncCall(i, key))
  /\ \A key \in Keys, choice \in PlainChoices : SyncFails(setItemSyncCall(i, key, choice))
  /\ \A key \in Keys : SyncFails(removeItemSyncCall(i, key))
  /\ SyncFails(clearSyncCall(i))
  /\ SyncFails(sizeSyncCall(i))
  /\ \A index \in Indices : SyncFails(keySyncCall(i, index))
\* Every operation among ops called after the deletion rejects when its timer fires.
AsyncOpsFail(i, ops) ==
  \A n \in DOMAIN pending :
    (pending[n].inst = i /\ pending[n].deletedAtCall /\ pending[n].op \in ops)
      => AsyncFails(Fire(n))

C2_DeletionPreempts ==
  \A n \in DOMAIN pending :
    (~pending[n].deletedAtCall /\ adapters[pending[n].inst].isDeleted)
      => /\ AsyncFails(Fire(n))
         /\ Fire(n).promise.fulfilledSeen = 0

\* C2 witness: a getItemAsync that read 30 while the instance was live is still
\* waiting when the latch is set, and its timer callback rejects.
C2_Witness ==
  \E n \in DOMAIN pending :
    /\ ~pending[n].deletedAtCall
    /\ adapters[pending[n].inst].isDeleted
    /\ pending[n].op = "getItem"
    /\ pending[n].setup.resolve = <<Num(30)>>
    /\ AsyncFails(Fire(n))

\* C3 as stated: in every state in which the latch is set the Map is empty and
\* the name is the one the instance had when the latch was set.
C3_NoMutationAfterDeletion ==
  \A i \in Insts :
    adapters[i].isDeleted =>
      /\ adapters[i].storage = << >>
      /\ adapters[i].storageName = ghost[i].nameAtDelete

\* C4: the latch is one-way: no step takes an instance whose latch is set to a
\* state in which it is not set.
C4_LatchOneWay ==
  [][\A i \in Insts : adapters[i].isDeleted => adapters'[i].isDeleted]_vars

\* C4 witness: the latch is set and operations ran afterwards: an init renamed
\* the instance and a deferred setItem wrote to the Map.
C4_Witness ==
  \E i \in Insts :
    /\ adapters[i].isDeleted
    /\ adapters[i].storageName # ghost[i].nameAtDelete
    /\ adapters[i].storage # << >>

\* C5: on a live instance getItem(k) returns a value equal to the one the last
\* successful setItem(k, v) wrote: getItemSync returns it, getItemAsync called
\* now carries it as its payload, and a pending getItemAsync is fulfilled with
\* the payload it carries.
C5_RoundTrip ==
  \A i \in Insts :
    ~adapters[i].isDeleted =>
      /\ \A k \in Keys :
           ghost[i].written[k] # Absent =>
             /\ getItemSyncCall(i, k).outcome = "returned"
             /\ Deref(getItemSyncCall(i, k).ret, getItemSyncCall(i, k).heap)
                  = ghost[i].written[k]
             /\ LET c == structuredClone(MapGet(adapters[i].storage, k), heap)
                IN  Deref(getItemAsyncCall(i, k, c).setup.resolve[1], c.heap)
                      = ghost[i].written[k]
      /\ \A n \in DOMAIN pending :
           (pending[n].inst = i /\ pending[n].op = "getItem") =>
             /\ Fire(n).promise.state = "fulfilled"
             /\ Fire(n).value = Deref(pending[n].setup.resolve[1], heap)

\* C5 witness: both keys were written with objects of different content, and
\* a getItemAsync that read one of them is waiting.
C5_Witness ==
  \E i \in Insts, n \in DOMAIN pending :
    /\ ~adapters[i].isDeleted
    /\ ghost[i].written["value"] = Obj(1)
    /\ ghost[i].written["Value"] = Obj(2)
    /\ pending[n].op = "getItem"
    /\ Deref(pending[n].setup.resolve[1], heap) = Obj(2)

\* C6: on a live instance the value stored under a key is the one the last
\* successful write stored, whatever the caller did since to the object it
\* passed or to an object it got back; no Map value is the caller's object.
C6_NoAliasing ==
  \A i \in Insts :
    ~adapters[i].isDeleted =>
      \A k \in Keys :
        /\ StoredDeep(adapters[i], k, heap) = ghost[i].written[k]
        /\ IsRef(callerRef) => MapGet(adapters[i].storage, k) # callerRef

\* C6 witness: the caller holds an object it has mutated to { c: [30] } while
\* both keys still hold { c: [40, 42] }.
C6_Witness ==
  \E i \in Insts :
    /\ ~adapters[i].isDeleted
    /\ IsRef(callerRef) /\ heap[callerRef.n] = 2
    /\ \A k \in Keys : StoredDeep(adapters[i], k, heap) = Obj(1)

\* C7: on a live instance key(0) .. key(size() - 1) list exactly the stored
\* keys, each once; setItem of a stored key keeps the order, setItem of a new
\* key appends it, removeItem closes the gap, clear (and deleteStorage) empties
\* the list, in the synchronous forms and when the timer of the asynchronous
\* forms fires.
OrderAfter(keys, act) ==
  CASE act.kind = "setItem" ->
         IF \E j \in DOMAIN keys : keys[j] = act.key THEN keys ELSE Append(keys, act.key)
    [] act.kind = "removeItem" -> SelectSeq(keys, LAMBDA k : k # act.key)
    [] act.kind \in {"clear", "deleteStorage"} -> << >>
    [] OTHER -> keys
C7_InsertionOrder ==
  \A i \in Insts :
    ~adapters[i].isDeleted =>
      LET keys == KeyList(adapters[i].storage)
      IN  /\ \A j, l \in DOMAIN keys : keys[j] = keys[l] => j = l
          /\ {keys[j] : j \in DOMAIN keys} = {k \in Keys : ghost[i].written[k] # Absent}
          /\ sizeSyncCall(i).ret = Num(Len(keys))
          /\ \A k \in Keys, choice \in PlainChoices :
               KeyList(setItemSyncCall(i, k, choice).adapter.storage)
                 = OrderAfter(keys, Action("setItem", k, Undefined, ""))
          /\ \A k \in Keys :
               KeyList(removeItemSyncCall(i, k).adapter.storage)
                 = OrderAfter(keys, Action("removeItem", k, Undefined, ""))
          /\ KeyList(clearSyncCall(i).adapter.storage) = << >>
          /\ \A n \in DOMAIN pending :
               pending[n].inst = i =>
                 KeyList(Fire(n).adapter.storage)
                   = OrderAfter(keys, pending[n].setup.action)

\* C7 witness: "Value" is listed before "value", and a removeItemAsync of the
\* first key waits for its timer: when it fires "value" moves to index 0.
C7_Witness ==
  \E i \in Insts, n \in DOMAIN pending :
    /\ ~adapters[i].isDeleted
    /\ KeyList(adapters[i].storage) = <<"Value", "value">>
    /\ pending[n].setup.action.kind = "removeItem"
    /\ pending[n].setup.action.key = "Value"
    /\ KeyList(Fire(n).adapter.storage) = <<"value">>

C9_EveryTimerSettles ==
  \A n \in DOMAIN pending : Fire(n).promise.state \in {"fulfilled", "rejected"}

\* C10 as stated: wait with a malformed descriptor (both outcomes set, or
\* neither) fails when it is invoked, before any delay: no malformed
\* descriptor ever waits for a timer.
C10_MalformedFailsAtInvocation ==
  \A n \in DOMAIN pending :
    ~Malformed(pending[n].setup)

\* C11 as stated: a second deleteStorage on an instance whose latch is set
\* does not fail: deleteStorageSync returns, the promise of deleteStorageAsync
\* is fulfilled, and the instance is as it was.
C11_DeleteNotGuarded ==
  \A i \in Insts :
    adapters[i].isDeleted =>
      /\ deleteStorageSyncCall(i).outcome = "returned"
      /\ deleteStorageSyncCall(i).adapter = adapters[i]
      /\ \A n \in DOMAIN pending :
           (pending[n].inst = i /\ pending[n].deletedAtCall
              /\ pending[n].op = "deleteStorage")
             => /\ Fire(n).promise.state = "fulfilled"
                /\ Fire(n).adapter = adapters[i]

\* C11 amended: deleteStorage is guarded against re-invocation: on an instance
\* whose latch is set deleteStorageSync throws the storage-deleted error and
\* changes nothing, and the promise of a deleteStorageAsync called then rejects
\* with the storage-deleted error; the latch stays set and the Map is empty
\* after it.
C11_DeleteGuarded ==
  \A i \in Insts :
    adapters[i].isDeleted =>
      /\ SyncFails(deleteStorageSyncCall(i))
      /\ deleteStorageSyncCall(i).adapter = adapters[i]
      /\ \A n \in DOMAIN pending :
           (pending[n].inst = i /\ pending[n].deletedAtCall
              /\ pending[n].op = "deleteStorage")
             => /\ AsyncFails(Fire(n))
                /\ Fire(n).promise.fulfilledSeen = 0
                /\ Fire(n).adapter.isDeleted
                /\ Fire(n).adapter.storage = << >>

\* C11 witness: the latch is set and a deleteStorageAsync called after the
\* deletion waits for its timer.
C11_Witness ==
  \E i \in Insts, n \in DOMAIN pending :
    /\ adapters[i].isDeleted
    /\ pending[n].inst = i /\ pending[n].deletedAtCall
    /\ pending[n].op = "deleteStorage"
    /\ SyncFails(deleteStorageSyncCall(i))

\* C12 as stated: initialize always succeeds, on a live and on a deleted
\* instance: initSync returns Ok without throwing, and the promise of every
\* initAsync is fulfilled with Ok when its timer fires.
C12_InitAlwaysSucceeds ==
  \A i \in Insts :
    /\ \A name \in SetupNames :
         /\ initSyncCall(i, name).outcome = "returned"
         /\ initSyncCall(i, name).ret = Ok
    /\ \A n \in DOMAIN pending :
         (pending[n].inst = i /\ pending[n].op = "init")
           => /\ Fire(n).promise.state = "fulfilled"
              /\ Fire(n).value = Ok

\* C13: on a live instance removeItem(k) of a key that is not stored raises
\* no error and changes nothing (the Map with its values and order, the name
\* and the latch), in the synchronous form and when the timer of the
\* asynchronous form fires; after any removeItem(k) the key is not stored, and
\* removing it again changes nothing more.
C13_IdempotentRemove ==
  \A i \in Insts :
    ~adapters[i].isDeleted =>
      \A k \in Keys :
        LET r == removeItemSyncCall(i, k)
        IN  /\ r.outcome = "returned"
            /\ ~MapHas(r.adapter.storage, k)
            /\ removeItemBody(r.adapter, k) = r.adapter
            /\ ~MapHas(adapters[i].storage, k) =>
                 /\ r.adapter = adapters[i]
                 /\ r.heap = heap
                 /\ \A n \in DOMAIN pending :
                      (pending[n].inst = i /\ pending[n].op = "removeItem"
                         /\ pending[n].setup.action.key = k)
                        => /\ Fire(n).promise.state = "fulfilled"
                           /\ Fire(n).value = Ok
                           /\ Fire(n).adapter = adapters[i]

\* C13 witness: "value" is stored, "Value" is not, and a removeItemAsync of
\* "Value" waits for its timer.
C13_Witness ==
  \E i \in Insts, n \in DOMAIN pending :
    /\ ~adapters[i].isDeleted
    /\ MapHas(adapters[i].storage, "value")
    /\ ~MapHas(adapters[i].storage, "Value")
    /\ pending[n].inst = i /\ pending[n].op = "removeItem"
    /\ pending[n].setup.action.key = "Value"
    /\ Fire(n).adapter = adapters[i]

\* C14: clear on a live instance returns without error and leaves a Map of
\* size 0 in which no key has a value, the name it had and the latch unset, so
\* that checkStorage passes for the operations that follow; the same holds
\* when the timer of a clearAsync fires on a live instance, whose promise is
\* fulfilled with Ok.
ClearedLike(a2, a) ==
  /\ MapSize(a2.storage) = 0
  /\ \A k \in Keys : ~MapHas(a2.storage, k) /\ MapGet(a2.storage, k) = Undefined
  /\ a2.storageName = a.storageName
  /\ ~a2.isDeleted
  /\ ~checkStorage(a2)
  /\ \A k \in Keys : MapGet(setItemBody(a2, k, Num(30)).storage, k) = Num(30)
C14_ClearPreservesIdentity ==
  \A i \in Insts :
    ~adapters[i].isDeleted =>
      /\ clearSyncCall(i).outcome = "returned"
      /\ ClearedLike(clearSyncCall(i).adapter, adapters[i])
      /\ \A n \in DOMAIN pending :
           (pending[n].inst = i /\ pending[n].op = "clear")
             => /\ Fire(n).promise.state = "fulfilled"
                /\ Fire(n).value = Ok
                /\ ClearedLike(Fire(n).adapter, adapters[i])

\* C14 witness: a live instance named "settings" holds both keys and a
\* clearAsync waits for its timer.
C14_Witness ==
  \E i \in Insts, n \in DOMAIN pending :
    /\ ~adapters[i].isDeleted
    /\ adapters[i].storageName = "settings"
    /\ MapSize(adapters[i].storage) = 2
    /\ pending[n].inst = i /\ pending[n].op = "clear"
    /\ MapSize(Fire(n).adapter.storage) = 0

\* A step that is a call of a method of instance i, or the firing of the
\* timer of one of its deferred operations.
OperatesOn(i) ==
  \/ \E name \in TwoNames : initSync(i, name) \/ initAsync(i, name)
  \/ \E key \in TwoKeys, choice \in TwoChoices :
       setItemSync(i, key, choice) \/ setItemAsync(i, key, choice)
  \/ \E key \in TwoKeys : removeItemSync(i, key) \/ removeItemAsync(i, key)
  \/ clearSync(i) \/ clearAsync(i)
  \/ deleteStorageSync(i) \/ deleteStorageAsync(i)
  \/ \E n \in DOMAIN pending : pending[n].inst = i /\ TimerFires(n)

\* C15: no step of an operation on one instance (a synchronous call, an
\* asynchronous call, the firing of a timer) changes the Map, the name or the
\* latch of another instance, whatever the names are; constructing an instance
\* changes no existing instance, and the new instance has an empty Map.
C15_InstanceIsolation ==
  [][/\ \A i \in AllInsts :
          OperatesOn(i) =>
            \A j \in DOMAIN adapters \ {i} : adapters'[j] = adapters[j]
     /\ \A i \in AllInsts :
          newMockInterface(i) =>
            /\ adapters'[i].storage = << >>
            /\ \A j \in DOMAIN adapters : adapters'[j] = adapters[j]]_vars

\* C15 witness: two instances of the same name, one live and holding a key,
\* the other deleted and empty.
C15_Witness ==
  /\ DOMAIN adapters = AllInsts
  /\ adapters["A"].storageName = "settings"
  /\ adapters["B"].storageName = "settings"
  /\ ~adapters["A"].isDeleted
  /\ adapters["A"].storage # << >>
  /\ adapters["B"].isDeleted
  /\ adapters["B"].storage = << >>

\* C16: on a live instance key(index) with an index that is negative or not
\* below size() (any index when the Map is empty) returns undefined without
\* an error and changes nothing: keySync returns it, keyAsync carries it as
\* its payload, and its promise is fulfilled with it when the timer fires.
C16_AbsentIndex ==
  \A i \in Insts :
    ~adapters[i].isDeleted =>
      /\ \A index \in Indices :
           (index < 0 \/ index >= sizeSyncCall(i).ret.n) =>
             /\ keySyncCall(i, index).outcome = "returned"
             /\ keySyncCall(i, index).ret = Undefined
             /\ keySyncCall(i, index).adapter = adapters[i]
             /\ keySyncCall(i, index).heap = heap
             /\ keyAsyncCall(i, index).setup.resolve = <<Undefined>>
             /\ ~IsSet(keyAsyncCall(i, index).setup.reject)
      /\ \A n \in DOMAIN pending :
           (pending[n].inst = i /\ pending[n].op = "key")
             => /\ Fire(n).promise.state = "fulfilled"
                /\ Fire(n).value = pending[n].setup.resolve[1]
                /\ Fire(n).adapter = adapters[i]

\* C16 witness: the Map holds one key and a keyAsync called with an index out
\* of range waits for its timer, carrying undefined.
C16_Witness ==
  \E i \in Insts, n \in DOMAIN pending :
    /\ ~adapters[i].isDeleted
    /\ MapSize(adapters[i].storage) = 1
    /\ keySyncCall(i, 1).ret = Undefined /\ keySyncCall(i, -1).ret = Undefined
    /\ pending[n].inst = i /\ pending[n].op = "key"
    /\ pending[n].setup.resolve = <<Undefined>>
    /\ Fire(n).promise.state = "fulfilled"

\* The number of keys that were set and not since removed or cleared.
Written(i) == {k \in Keys : ghost[i].written[k] # Absent}

\* C17: on a live instance size() is the number of distinct keys that were
\* set and not since removed or cleared, in the synchronous form and as the
\* payload of sizeAsync; setItem of a new key raises it by one, setItem of a
\* stored key leaves it, removeItem of a stored key lowers it by one.
C17_SizeCorrect ==
  \A i \in Insts :
    ~adapters[i].isDeleted =>
      LET size == Cardinality(Written(i))
      IN  /\ sizeSyncCall(i).outcome = "returned"
          /\ sizeSyncCall(i).ret = Num(size)
          /\ sizeAsyncCall(i).setup.resolve = <<Num(size)>>
          /\ \A k \in Keys, choice \in PlainChoices :
               MapSize(setItemSyncCall(i, k, choice).adapter.storage)
                 = IF k \in Written(i) THEN size ELSE size + 1
          /\ \A k \in Keys :
               MapSize(removeItemSyncCall(i, k).adapter.storage)
                 = IF k \in Written(i) THEN size - 1 ELSE size
          /\ MapSize(clearSyncCall(i).adapter.storage) = 0
          /\ \A n \in DOMAIN pending :
               (pending[n].inst = i /\ pending[n].setup.action.kind = "setItem")
                 => MapSize(Fire(n).adapter.storage)
                      = IF pending[n].setup.action.key \in Written(i)
                        THEN size ELSE size + 1

\* C17 witness: one key is stored and a setItemAsync of the same key waits
\* for its timer: size() is 1 and stays 1 when the timer fires.
C17_Witness ==
  \E i \in Insts, n \in DOMAIN pending :
    /\ ~adapters[i].isDeleted
    /\ sizeSyncCall(i).ret = Num(1)
    /\ pending[n].inst = i /\ pending[n].setup.action.kind = "setItem"
    /\ pending[n].setup.action.key \in Written(i)
    /\ MapSize(Fire(n).adapter.storage) = 1

\* The asynchronous mutations.
DeferredMutations == {"setItem", "removeItem", "clear", "deleteStorage"}

\* C18: a step that sets a timer changes no instance; the step in which the
\* timer of an asynchronous mutation fires leaves its instance with the whole
\* effect of the mutation and every other instance as it was; and a step that
\* sets the latch of an instance leaves its Map empty, so no state shows a
\* mutation partially applied.
C18_AtomicDeferredMutation ==
  [][/\ Len(pending') > Len(pending) => adapters' = adapters
     /\ \A n \in DOMAIN pending :
          (pending[n].op \in DeferredMutations /\ TimerFires(n)) =>
            LET i == pending[n].inst
                act == pending[n].setup.action
                done == CASE act.kind = "setItem" ->
                               setItemBody(adapters[i], act.key, act.value)
                          [] act.kind = "removeItem" ->
                               removeItemBody(adapters[i], act.key)
                          [] act.kind = "clear" -> clearBody(adapters[i])
                          [] act.kind = "deleteStorage" ->
                               deleteStorageBody(adapters[i])
            IN  adapters' = [adapters EXCEPT ![i] = done]
     /\ \A i \in Insts :
          (~adapters[i].isDeleted /\ adapters'[i].isDeleted)
            => adapters'[i].storage = << >>]_vars

\* C18 witness: a deleteStorageAsync was called on a live instance that holds
\* a key; until its timer fires the Map and the latch are as they were.
C18_Witness ==
  \E i \in Insts, n \in DOMAIN pending :
    /\ pending[n].inst = i /\ pending[n].op = "deleteStorage"
    /\ ~adapters[i].isDeleted
    /\ adapters[i].storage # << >>
    /\ Fire(n).adapter.isDeleted
    /\ Fire(n).adapter.storage = << >>

\* C19: on a live instance setItem(k, v) leaves v under k, whatever k held,
\* and leaves every other key with the value it had (or without one), in the
\* synchronous form and when the timer of the asynchronous form fires; "value"
\* and "Value" are two entries, each holding what was last written to it.
SetLike(a2, a, k, v) ==
  /\ MapHas(a2.storage, k)
  /\ MapGet(a2.storage, k) = v
  /\ \A k2 \in Keys \ {k} :
       /\ MapHas(a2.storage, k2) = MapHas(a.storage, k2)
       /\ MapGet(a2.storage, k2) = MapGet(a.storage, k2)
C19_OverwriteAndIndependence ==
  \A i \in Insts :
    ~adapters[i].isDeleted =>
      /\ \A k \in Keys, choice \in PlainChoices :
           /\ setItemSyncCall(i, k, choice).outcome = "returned"
           /\ SetLike(setItemSyncCall(i, k, choice).adapter, adapters[i], k,
                      Arg(choice).val)
      /\ \A n \in DOMAIN pending :
           (pending[n].inst = i /\ pending[n].op = "setItem") =>
             /\ Fire(n).promise.state = "fulfilled"
             /\ SetLike(Fire(n).adapter, adapters[i],
                        pending[n].setup.action.key, pending[n].setup.action.value)
      /\ \A k \in Written(i) : MapGet(adapters[i].storage, k) = ghost[i].written[k]

\* C19 witness: "value" holds 30 and "Value" holds undefined, and a
\* setItemAsync that overwrites "value" with undefined waits for its timer.
C19_Witness ==
  \E i \in Insts, n \in DOMAIN pending :
    /\ ~adapters[i].isDeleted
    /\ MapGet(adapters[i].storage, "value") = Num(30)
    /\ MapHas(adapters[i].storage, "Value")
    /\ MapGet(adapters[i].storage, "Value") = Undefined
    /\ pending[n].inst = i /\ pending[n].op = "setItem"
    /\ pending[n].setup.action.key = "value"
    /\ pending[n].setup.action.value = Undefined
    /\ MapGet(Fire(n).adapter.storage, "value") = Undefined

\* C20: on a live instance getItem(k) returns, without an error, undefined
\* for a key whose last completed write was a removeItem(k) or a clear() (or
\* that was never set), and the value of the last completed setItem(k, v)
\* otherwise; after removeItem(k) the key has no value, after clear() no key
\* has one, in the synchronous forms and when the timers of the asynchronous
\* forms fire.
C20_RemovalVisible ==
  \A i \in Insts :
    ~adapters[i].isDeleted =>
      /\ \A k \in Keys :
           /\ getItemSyncCall(i, k).outcome = "returned"
           /\ getItemSyncCall(i, k).ret
                = IF k \in Written(i) THEN ghost[i].written[k] ELSE Undefined
           /\ LET c == structuredClone(MapGet(adapters[i].storage, k), heap)
              IN  getItemAsyncCall(i, k, c).setup.resolve
                    = <<IF k \in Written(i) THEN ghost[i].written[k] ELSE Undefined>>
           /\ MapGet(removeItemSyncCall(i, k).adapter.storage, k) = Undefined
           /\ removeItemSyncCall(i, k).ghost.written[k] = Absent
           /\ MapGet(clearSyncCall(i).adapter.storage, k) = Undefined
           /\ clearSyncCall(i).ghost.written[k] = Absent
      /\ \A n \in DOMAIN pending :
           (pending[n].inst = i /\ pending[n].op \in {"removeItem", "clear"}) =>
             /\ Fire(n).promise.state = "fulfilled"
             /\ \A k \in Keys :
                  (pending[n].op = "clear" \/ pending[n].setup.action.key = k)
                    => MapGet(Fire(n).adapter.storage, k) = Undefined

\* C20 witness: "value" was written with 30 and "Value" was removed or
\* cleared since it was last set (30 is read, then undefined), and a
\* removeItemAsync of "value" waits for its timer.
C20_Witness ==
  \E i \in Insts, n \in DOMAIN pending :
    /\ ~adapters[i].isDeleted
    /\ getItemSyncCall(i, "value").ret = Num(30)
    /\ ghost[i].written["Value"] = Absent
    /\ getItemSyncCall(i, "Value").ret = Undefined
    /\ pending[n].inst = i /\ pending[n].op = "removeItem"
    /\ pending[n].setup.action.key = "value"
    /\ MapGet(Fire(n).adapter.storage, "value") = Undefined

\* C21: randomInRange(min, max) with min <= max returns an integer r with
\* min <= r <= max, and 0 for (0, 0); the delay wait computes is the one the
\* descriptor supplies when it supplies one, and otherwise an integer from 10
\* to 100.
C21_DelayRange ==
  /\ (timer.call = "randomInRange" /\ timer.min <= timer.max) =>
       /\ timer.delay \in timer.min .. timer.max
       /\ (timer.min = 0 /\ timer.max = 0) => timer.delay = 0
  /\ timer.call = "wait" =>
       IF IsSet(timer.fixed)
       THEN timer.delay = timer.fixed[1]
       ELSE timer.delay \in 10 .. 100

\* C21 witness: wait computed the delay 100 from a descriptor without one.
C21_Witness ==
  /\ timer.call = "wait"
  /\ ~IsSet(timer.fixed)
  /\ timer.delay = 100

\* C22: on a live instance initialize, getItem, setItem, removeItem, clear,
\* size and key succeed and leave the latch unset: the synchronous forms
\* return, and the timer callbacks of the asynchronous forms fulfil their
\* promise; the only calls and callbacks that set the latch are
\* deleteStorageSync and the callback of deleteStorageAsync.
StaysLive(r) == r.outcome = "returned" /\ ~r.adapter.isDeleted
C23_AllOrNothing ==
  \A i \in Insts :
    /\ \A k \in Keys, choice \in PlainChoices :
         setItemSyncCall(i, k, choice).outcome = "threw"
           => setItemSyncCall(i, k, choice).adapter = adapters[i]
    /\ \A k \in Keys :
         removeItemSyncCall(i, k).outcome = "threw"
           => removeItemSyncCall(i, k).adapter = adapters[i]
    /\ clearSyncCall(i).outcome = "threw" => clearSyncCall(i).adapter = adapters[i]
    /\ deleteStorageSyncCall(i).outcome = "threw"
         => deleteStorageSyncCall(i).adapter = adapters[i]
    /\ \A n \in DOMAIN pending :
         (pending[n].inst = i /\ Fire(n).promise.state = "rejected")
           => Fire(n).adapter = adapters[i]

\* C24: initialize sets only the name, on any instance, holding entries or
\* not: initSync returns and the callback of initAsync leaves the name the
\* caller gave, or the default name when it gave none, and the Map with its
\* order and the latch as they were.
NamedLike(a2, a, name) ==
  /\ name = "settings" => a2.storageName = "settings"
  /\ name = NameAbsent => a2.storageName = defaultStorageName
  /\ a2.storage = a.storage
  /\ a2.isDeleted = a.isDeleted
C24_InitSetsOnlyName ==
  \A i \in Insts :
    /\ \A name \in SetupNames :
         /\ initSyncCall(i, name).outcome = "returned"
         /\ NamedLike(initSyncCall(i, name).adapter, adapters[i], name)
    /\ \A n \in DOMAIN pending :
         (pending[n].inst = i /\ pending[n].op = "init")
           => NamedLike(Fire(n).adapter, adapters[i], pending[n].setup.action.name)

\* C24 witness: an instance named "settings" holds both keys and an initAsync
\* without a name waits for its timer: it will rename it to the default.
C24_Witness ==
  \E i \in Insts, n \in DOMAIN pending :
    /\ adapters[i].storageName = "settings"
    /\ MapSize(adapters[i].storage) = 2
    /\ pending[n].inst = i /\ pending[n].op = "init"
    /\ pending[n].setup.action.name = NameAbsent
    /\ Fire(n).adapter.storageName = defaultStorageName
    /\ MapSize(Fire(n).adapter.storage) = 2

\* C25: getItemAsync, sizeAsync and keyAsync compute their payload from the
\* Map when they are called, and on a live instance their promise is
\* fulfilled with that payload when the timer fires, whatever the Map holds
\* by then.
C25_DeferredReadsAreSnapshots ==
  \A i \in Insts :
    /\ \A k \in Keys :
         LET c == structuredClone(MapGet(adapters[i].storage, k), heap)
         IN  getItemAsyncCall(i, k, c).setup.resolve = <<MapGet(adapters[i].storage, k)>>
    /\ sizeAsyncCall(i).setup.resolve = <<Num(MapSize(adapters[i].storage))>>
    /\ \A index \in Indices :
         keyAsyncCall(i, index).setup.resolve = <<ArrayFromAt(adapters[i].storage, index)>>
    /\ ~adapters[i].isDeleted =>
         \A n \in DOMAIN pending :
           (pending[n].inst = i /\ pending[n].op \in {"getItem", "size", "key"}) =>
             /\ Fire(n).promise.state = "fulfilled"
             /\ Fire(n).promise.value = pending[n].setup.resolve[1]
             /\ Fire(n).adapter = adapters[i]

\* C25 witness: a getItemAsync that read 30 under "value" waits for its timer
\* while the Map no longer holds "value": it will still deliver 30.
C25_Witness ==
  \E i \in Insts, n \in DOMAIN pending :
    /\ ~adapters[i].isDeleted
    /\ pending[n].inst = i /\ pending[n].op = "getItem"
    /\ pending[n].setup.action.key = "value"
    /\ pending[n].setup.resolve = <<Num(30)>>
    /\ ~MapHas(adapters[i].storage, "value")
    /\ MapSize(adapters[i].storage) = 1
    /\ Fire(n).promise.value = Num(30)

\* The Map mutations that can race on a key.
RacingOps == {"setItem", "removeItem", "clear"}
\* The instance after the action of a pending operation has run on it.
After(a, d) == RunAction(d.setup.action, a, heap).adapter

\* C26: when two asynchronous Map mutations of a live instance are in flight
\* and the timer of the one called second fires first, that step leaves the
\* Map as the second mutation makes it, the first is still in flight, and its
\* timer will leave the Map as the first mutation makes it on top of that: the
\* mutations apply in the order in which their timers fire.
C26_TimerFiringOrder ==
  [][\A m \in DOMAIN pending, n \in DOMAIN pending :
       (/\ m < n
        /\ pending[m].inst = pending[n].inst
        /\ ~adapters[pending[n].inst].isDeleted
        /\ pending[m].op \in RacingOps /\ pending[n].op \in RacingOps
        /\ TimerFires(n)) =>
         LET i == pending[n].inst
         IN  /\ adapters'[i] = After(adapters[i], pending[n])
             /\ pending'[m] = pending[m]
             /\ (Fire(m).adapter)' = After(After(adapters[i], pending[n]), pending[m])]_vars

\* C26 witness: setItemAsync("value", 30) was called first and
\* removeItemAsync("value") second; if the timers fire in call order the key
\* ends up removed, and if they fire in the other order it ends up holding 30.
C26_Witness ==
  \E i \in Insts :
    /\ ~adapters[i].isDeleted
    /\ Len(pending) = 2
    /\ pending[1].inst = i /\ pending[2].inst = i
    /\ pending[1].op = "setItem" /\ pending[1].setup.action.key = "value"
    /\ pending[1].setup.action.value = Num(30)
    /\ pending[2].op = "removeItem" /\ pending[2].setup.action.key = "value"
    /\ ~MapHas(After(After(adapters[i], pending[1]), pending[2]).storage, "value")
    /\ MapGet(After(After(adapters[i], pending[2]), pending[1]).storage, "value") = Num(30)

\* C27: a pending setItemAsync of an object holds the caller's object itself,
\* not a copy: when its timer fires on a live instance, the Map gets a new
\* object whose content is the content the caller's object has then, whatever
\* it was when setItemAsync was called; the new object is not the caller's, so
\* mutations after the timer has fired do not reach it.
C27_SetItemAsyncCopiesAtFire ==
  \A n \in DOMAIN pending :
    (/\ pending[n].op = "setItem"
     /\ pending[n].valueAtCall.t = "objectContent"
     /\ ~adapters[pending[n].inst].isDeleted) =>
      LET act == pending[n].setup.action
          f == Fire(n)
          stored == MapGet(f.adapter.storage, act.key)
      IN  /\ IsRef(act.value)
          /\ f.promise.state = "fulfilled"
          /\ IsRef(stored)
          /\ stored.n \notin DOMAIN heap
          /\ stored # act.value
          /\ Deref(stored, f.heap) = Deref(act.value, heap)

\* C27 witness: the caller passed { c: [40, 42] } to setItemAsync, still holds
\* it and has mutated it to { c: [30] } since; when the timer fires the Map
\* gets { c: [30] }.
C27_Witness ==
  \E n \in DOMAIN pending :
    /\ pending[n].op = "setItem"
    /\ ~adapters[pending[n].inst].isDeleted
    /\ pending[n].valueAtCall = Obj(1)
    /\ pending[n].setup.action.value = callerRef
    /\ Deref(callerRef, heap) = Obj(2)
    /\ StoredDeep(Fire(n).adapter, pending[n].setup.action.key, Fire(n).heap) = Obj(2)

Awaited(d) == waitCallback(d.setup, adapters[d.inst], heap)
\* A synchronous call and an awaited asynchronous call end alike: both succeed
\* or both fail with the same error, a read delivers the same value, and the
\* instance is left the same.
EndAlike(r, w, isRead) ==
  /\ (r.outcome = "returned") = (w.promise.state = "fulfilled")
  /\ (r.outcome = "threw") = (w.promise.state = "rejected")
  /\ r.outcome = "threw" => w.promise.value = r.thrown
  /\ (isRead /\ r.outcome = "returned") => w.promise.value = r.ret
  /\ w.adapter = r.adapter

\* C29 as stated: when no operation is in flight, each of getItem, setItem,
\* removeItem, clear, size, key and deleteStorage ends alike in its synchronous
\* form and in its asynchronous form awaited at once, so that sequences of
\* awaited asynchronous calls and of synchronous calls yield the same results
\* and the same Map, order and latch.
C29_SyncAsyncEquivalent ==
  pending = << >> =>
    \A i \in Insts :
      /\ \A k \in Keys :
           /\ LET c == structuredClone(MapGet(adapters[i].storage, k), heap)
              IN  EndAlike(getItemSyncCall(i, k), Awaited(getItemAsyncCall(i, k, c)), TRUE)
           /\ EndAlike(removeItemSyncCall(i, k), Awaited(removeItemAsyncCall(i, k)), FALSE)
           /\ \A choice \in PlainChoices :
                EndAlike(setItemSyncCall(i, k, choice),
                         Awaited(setItemAsyncCall(i, k, Arg(choice).val, Arg(choice).heap)),
                         FALSE)
      /\ EndAlike(clearSyncCall(i), Awaited(clearAsyncCall(i)), FALSE)
      /\ EndAlike(sizeSyncCall(i), Awaited(sizeAsyncCall(i)), TRUE)
      /\ \A index \in Indices :
           EndAlike(keySyncCall(i, index), Awaited(keyAsyncCall(i, index)), TRUE)
      /\ EndAlike(deleteStorageSyncCall(i), Awaited(deleteStorageAsyncCall(i)), FALSE)

\* C30: on a live instance setItem(k, undefined) of a key that is not stored
\* adds an entry: size() grows by one and key lists k last, while getItem(k)
\* returns undefined as it did before; a key whose last completed write was
\* setItem(k, undefined) is stored, is listed by key and is counted by size;
\* getItem, setItem and removeItem of another key and initialize keep it, and
\* removeItem(k), clear and deleteStorage remove it.
C30_UndefinedEntryCounts ==
  \A i \in Insts :
    ~adapters[i].isDeleted =>
      \A k \in Keys :
        LET m == adapters[i].storage
            r == setItemSyncCall(i, k, "undefined")
        IN  /\ ~MapHas(m, k) =>
                 /\ getItemSyncCall(i, k).ret = Undefined
                 /\ MapSize(r.adapter.storage) = sizeSyncCall(i).ret.n + 1
                 /\ KeyList(r.adapter.storage) = Append(KeyList(m), k)
                 /\ MapGet(r.adapter.storage, k) = Undefined
            /\ ghost[i].written[k] = Undefined =>
                 /\ MapHas(m, k)
                 /\ getItemSyncCall(i, k).ret = Undefined
                 /\ sizeSyncCall(i).ret.n >= 1
                 /\ \E index \in Indices : keySyncCall(i, index).ret = Str(k)
                 /\ MapHas(getItemSyncCall(i, k).adapter.storage, k)
                 /\ \A name \in SetupNames : MapHas(initSyncCall(i, name).adapter.storage, k)
                 /\ \A k2 \in Keys \ {k} :
                      /\ MapHas(removeItemSyncCall(i, k2).adapter.storage, k)
                      /\ \A choice \in PlainChoices :
                           MapHas(setItemSyncCall(i, k2, choice).adapter.storage, k)
                 /\ ~MapHas(removeItemSyncCall(i, k).adapter.storage, k)
                 /\ ~MapHas(clearSyncCall(i).adapter.storage, k)
                 /\ ~MapHas(deleteStorageSyncCall(i).adapter.storage, k)

\* C30 witness: "value" was set to undefined and is the only entry: size()
\* is 1, key(0) is "value", and getItem reads undefined for both keys.
C30_Witness ==
  \E i \in Insts :
    /\ ~adapters[i].isDeleted
    /\ ghost[i].written["value"] = Undefined
    /\ ghost[i].written["Value"] = Absent
    /\ sizeSyncCall(i).ret = Num(1)
    /\ keySyncCall(i, 0).ret = Str("value")
    /\ getItemSyncCall(i, "value").ret = Undefined
    /\ getItemSyncCall(i, "Value").ret = Undefined

\* The operations that read: getItem, size and key.
ReadOps == {"getItem", "size", "key"}
\* A step of a read: a synchronous read, the call of an asynchronous read, or
\* the timer callback of an asynchronous read.
ReadStep ==
  \/ \E i \in Insts, key \in Keys : getItemSync(i, key) \/ getItemAsync(i, key)
  \/ \E i \in Insts : sizeSync(i) \/ sizeAsync(i)
  \/ \E i \in Insts, index \in Indices : keySync(i, index) \/ keyAsync(i, index)
  \/ \E n \in DOMAIN pending : pending[n].op \in ReadOps /\ TimerFires(n)
\* What the operations of instance i called next would do: the result of each
\* synchronous call, and the descriptor of each asynchronous read.
Answers(i) ==
  [getItem |-> [k \in Keys |-> getItemSyncCall(i, k)],
   setItem |-> [k \in Keys |-> [choice \in PlainChoices |-> setItemSyncCall(i, k, choice)]],
   removeItem |-> [k \in Keys |-> removeItemSyncCall(i, k)],
   clear |-> clearSyncCall(i),
   size |-> sizeSyncCall(i),
   key |-> [index \in Indices |-> keySyncCall(i, index)],
   deleteStorage |-> deleteStorageSyncCall(i),
   init |-> [name \in SetupNames |-> initSyncCall(i, name)],
   getItemAsync |-> [k \in Keys |->
                       getItemAsyncCall(i, k, structuredClone(MapGet(adapters[i].storage, k),
                                                              heap))],
   sizeAsync |-> sizeAsyncCall(i),
   keyAsync |-> [index \in Indices |-> keyAsyncCall(i, index)]]

\* C31: a step of getItem, size or key, synchronous or asynchronous (the call
\* and the timer callback), on a live or on a deleted instance, leaves the
\* entries of the Map and their order, the name and the latch of every
\* instance as they were, and with them what every operation called next
\* returns or throws.
C31_ReadsChangeNothing ==
  [][ReadStep =>
       /\ adapters' = adapters
       /\ ghost' = ghost
       /\ \A i \in Insts : Answers(i)' = Answers(i)]_vars

\* C31 witness: the instance named "settings" holds 30 under "value" and
\* undefined under "Value" since a getItemAsync of "value" was called after
\* the writes; its timer callback leaves the instance as it is, and so do
\* getItem, size and key.
C31_Witness ==
  \E i \in Insts, n \in DOMAIN pending :
    /\ ~adapters[i].isDeleted
    /\ adapters[i].storageName = "settings"
    /\ KeyList(adapters[i].storage) = <<"value", "Value">>
    /\ pending[n].inst = i /\ pending[n].op = "getItem"
    /\ pending[n].setup.action.key = "value"
    /\ pending[n].setup.resolve = <<Num(30)>>
    /\ Fire(n).promise.state = "fulfilled"
    /\ Fire(n).adapter = adapters[i]
    /\ getItemSyncCall(i, "value").ret = Num(30)
    /\ getItemSyncCall(i, "value").adapter = adapters[i]
    /\ sizeSyncCall(i).ret = Num(2)
    /\ sizeSyncCall(i).adapter = adapters[i]
    /\ keySyncCall(i, 1).ret = Str("Value")
    /\ keySyncCall(i, 1).adapter = adapters[i]

====
